---- MODULE Spec2Model ----
(***************************************************************************)
(* A model of Dashboard.py: the start-up script that loads two recipe      *)
(* tables, reconciles them into combined_data, builds the layout, and the  *)
(* Dash callback update_dashboard that filters combined_data and builds    *)
(* the four figures.                                                       *)
(*                                                                         *)
(* A cell of a table is <<>> (pandas NaN / NaT / None) or <<v>>.  A string *)
(* is a sequence of one-character strings, so that lower-casing and        *)
(* stripping are computed character by character.  A table is a record     *)
(* [columns, index, rows]: the set of column names, the index labels and   *)
(* the rows (functions from column names to cells), in order.              *)
(***************************************************************************)
EXTENDS Integers, Sequences, FiniteSets

VARIABLES
    pc,             \* position of the script / server
    error,          \* exception that ended start-up, or "none"
    healthy_diet,   \* line 7
    epicurious,     \* line 8
    combined_data,  \* line 28 (merged_data), NoTable until then
    layout,         \* dropdown and slider of app.layout, NoLayout until built
    inputs,         \* value of cuisine-filter and calorie-slider at the last call
    filtered_data,  \* update_dashboard's local after its last run
    figures         \* figure property of the four dcc.Graph components

vars == <<pc, error, healthy_diet, epicurious, combined_data, layout, inputs,
          filtered_data, figures>>

----------------------------------------------------------------------------
(* Bounds of the model *)

MaxRowsA == 2
MaxRowsB == 2
MaxTitleLen == 3

----------------------------------------------------------------------------
(* Cells and strings *)

NaN == <<>>
V(v) == <<v>>
isna(c) == c = <<>>
Val(c) == c[1]

Range(s) == {s[i] : i \in 1..Len(s)}

SeqsUpTo(S, n) == UNION {[1..k -> S] : k \in 0..n}

Whitespace == {" ", "\t"}

\* str.lower() on one character
LowerChar(ch) ==
    CASE ch = "A" -> "a"
      [] ch = "B" -> "b"
      [] OTHER -> ch

\* Series.str.lower() on one string
str_lower(s) == [i \in 1..Len(s) |-> LowerChar(s[i])]

RECURSIVE lstrip(_)
lstrip(s) ==
    IF s # <<>> /\ Head(s) \in Whitespace THEN lstrip(Tail(s)) ELSE s

RECURSIVE rstrip(_)
rstrip(s) ==
    IF s # <<>> /\ s[Len(s)] \in Whitespace
    THEN rstrip(SubSeq(s, 1, Len(s) - 1))
    ELSE s

\* str.strip() takes one character off each end only
str_strip_once(s) ==
    LET l == IF s # <<>> /\ Head(s) \in Whitespace THEN Tail(s) ELSE s
    IN  IF l # <<>> /\ l[Len(l)] \in Whitespace
        THEN SubSeq(l, 1, Len(l) - 1) ELSE l

\* Series.str.strip() on one string
str_strip(s) == rstrip(lstrip(s))

\* .str.lower().str.strip() on one cell: NaN stays NaN (lines 21-22)
NormalizeTitle(c) == IF isna(c) THEN NaN ELSE V(str_strip(str_lower(Val(c))))

----------------------------------------------------------------------------
(* Tables *)

NoTable == [columns |-> {}, index |-> <<>>, rows |-> <<>>, none |-> TRUE]
NoLayout == [built |-> FALSE]
NoFigures == [none |-> TRUE]
NoInputs == <<>>

Table(cols, rws) ==
    [columns |-> cols, index |-> [i \in 1..Len(rws) |-> i - 1], rows |-> rws]

\* DataFrame.drop_duplicates(): keeps the first of equal rows, and the
\* index labels of the rows kept
drop_duplicates(t) ==
    LET first(i) == \A j \in 1..(i - 1) : t.rows[j] # t.rows[i]
        RECURSIVE keep(_)
        keep(i) == IF i > Len(t.rows) THEN <<>>
                   ELSE IF first(i) THEN <<i>> \o keep(i + 1)
                   ELSE keep(i + 1)
        kept == keep(1)
    IN  [columns |-> t.columns,
         index |-> [k \in 1..Len(kept) |-> t.index[kept[k]]],
         rows |-> [k \in 1..Len(kept) |-> t.rows[kept[k]]]]

\* DataFrame.rename(columns=mapping): a column named in the mapping takes its
\* new name, the others (and names the table does not have) are left alone
rename(t, old, new) ==
    IF old \notin t.columns THEN t
    ELSE LET cols == (t.columns \ {old}) \cup {new}
         IN  [columns |-> cols,
              index |-> t.index,
              rows |-> [i \in 1..Len(t.rows) |->
                          [c \in cols |-> IF c = new THEN t.rows[i][old]
                                          ELSE t.rows[i][c]]]]

\* the titles are left as they are
normalize_title_skipped(t) == t

\* t['title'] = t['title'].str.lower().str.strip()
normalize_title(t) ==
    [columns |-> t.columns,
     index |-> t.index,
     rows |-> [i \in 1..Len(t.rows) |->
                 [t.rows[i] EXCEPT !["title"] = NormalizeTitle(@)]]]

\* the name a non-key column takes in the merge: suffixed when both sides
\* have a column of that name
MergedName(c, common, suffix) == IF c \in common THEN c \o suffix ELSE c

\* the row of the merge made of left row a and right row b
JoinRow(a, b, lcols, rcols) ==
    LET common == (lcols \cap rcols) \ {"title"}
        lname(c) == MergedName(c, common, "_healthy")
        rname(c) == MergedName(c, common, "_epi")
        lother == lcols \ {"title"}
        rother == rcols \ {"title"}
        out == {"title"} \cup {lname(c) : c \in lother} \cup {rname(c) : c \in rother}
    IN  [n \in out |->
            IF n = "title" THEN a["title"]
            ELSE IF \E c \in lother : lname(c) = n
                 THEN a[CHOOSE c \in lother : lname(c) = n]
                 ELSE b[CHOOSE c \in rother : rname(c) = n]]

MergedColumns(lcols, rcols) ==
    LET common == (lcols \cap rcols) \ {"title"}
    IN  {"title"} \cup {MergedName(c, common, "_healthy") : c \in lcols \ {"title"}}
                  \cup {MergedName(c, common, "_epi") : c \in rcols \ {"title"}}

\* how="left": a left row without a partner is kept, its right cells NaN
MergeRowsLeft(left, right) ==
    LET nanrow == [c \in right.columns |-> NaN]
        RECURSIVE rightOf(_, _)
        rightOf(a, j) ==
            IF j > Len(right.rows) THEN <<>>
            ELSE IF a["title"] = right.rows[j]["title"]
                 THEN <<JoinRow(a, right.rows[j], left.columns, right.columns)>>
                      \o rightOf(a, j + 1)
                 ELSE rightOf(a, j + 1)
        RECURSIVE leftFrom(_)
        leftFrom(i) ==
            IF i > Len(left.rows) THEN <<>>
            ELSE (IF rightOf(left.rows[i], 1) = <<>>
                  THEN <<JoinRow(left.rows[i], nanrow, left.columns, right.columns)>>
                  ELSE rightOf(left.rows[i], 1)) \o leftFrom(i + 1)
    IN  leftFrom(1)

\* how="inner", on="title": for each left row in order, one row per right row
\* with the same key, in order; NaN keys match each other
MergeRows(left, right) ==
    LET RECURSIVE rightOf(_, _)
        rightOf(a, j) ==
            IF j > Len(right.rows) THEN <<>>
            ELSE IF a["title"] = right.rows[j]["title"]
                 THEN <<JoinRow(a, right.rows[j], left.columns, right.columns)>>
                      \o rightOf(a, j + 1)
                 ELSE rightOf(a, j + 1)
        RECURSIVE leftFrom(_)
        leftFrom(i) ==
            IF i > Len(left.rows) THEN <<>>
            ELSE rightOf(left.rows[i], 1) \o leftFrom(i + 1)
    IN  leftFrom(1)

\* pd.merge(healthy_diet, epicurious, on="title", how="inner",
\*          suffixes=("_healthy", "_epi"))
merge(left, right) ==
    Table(MergedColumns(left.columns, right.columns), MergeRows(left, right))

----------------------------------------------------------------------------
(* The input files *)

T(s) == V(s)

\* rows of epi_r.csv (read into healthy_diet)
PoolA ==
    { [title |-> T(<<" ", "A">>), calories |-> V(200), rating |-> V(3),
       date |-> V("2021-03-01")],
      [title |-> T(<<"a">>), calories |-> V(800), rating |-> V(4),
       date |-> V("not a date")],
      [title |-> T(<<"A", "\t">>), calories |-> V(200), rating |-> V(4),
       date |-> NaN],
      [title |-> NaN, calories |-> NaN, rating |-> V(3),
       date |-> V("2021-04-01")] }

\* rows of All_Diets.csv (read into epicurious)
PoolB ==
    { [Recipe_name |-> T(<<"A", " ">>), Cuisine_type |-> V("italian"),
       date |-> V("2021-03-01")],
      [Recipe_name |-> T(<<"a">>), Cuisine_type |-> V("french"),
       date |-> V("2021-04-01")],
      [Recipe_name |-> NaN, Cuisine_type |-> NaN,
       date |-> NaN] }

\* the row r of a pool as a row of a file with the given columns, its recipe
\* name under the column name key
FileRow(r, key, cols) ==
    [c \in cols |-> IF c = key THEN r[CHOOSE k \in {"title", "Recipe_name"} : k \in DOMAIN r]
                    ELSE r[c]]

\* the files with the given columns and at most n rows of the pool, in any
\* order, with repetitions
Files(pool, key, cols, n) ==
    {Table(cols, [i \in 1..Len(s) |-> FileRow(s[i], key, cols)]) : s \in SeqsUpTo(pool, n)}

\* the columns of epi_r.csv and of All_Diets.csv, with or without a date column
ColumnsA(key, withDate) ==
    {key, "calories", "rating"} \cup (IF withDate THEN {"date"} ELSE {})
ColumnsB(key, withDate) ==
    {key, "Cuisine_type"} \cup (IF withDate THEN {"date"} ELSE {})

\* which of the two files have a date column
DateColumns == {<<FALSE, FALSE>>, <<TRUE, FALSE>>, <<TRUE, TRUE>>}

----------------------------------------------------------------------------
(* Start-up: lines 7-28 *)

Loaded(A, B) ==
    /\ pc = "loaded"
    /\ error = "none"
    /\ healthy_diet = A
    /\ epicurious = B
    /\ combined_data = NoTable
    /\ layout = NoLayout
    /\ inputs = NoInputs
    /\ filtered_data = NoTable
    /\ figures = NoFigures

\* lines 7-8 have run: both files have the columns the dashboard uses
Init ==
    \E d \in DateColumns :
      \E A \in Files(PoolA, "title", ColumnsA("title", d[1]), MaxRowsA) :
        \E B \in Files(PoolB, "Recipe_name", ColumnsB("Recipe_name", d[2]), MaxRowsB) :
          Loaded(A, B)

\* lines 11-12
DropDuplicates ==
    /\ pc = "loaded"
    /\ epicurious' = drop_duplicates(epicurious)
    /\ healthy_diet' = drop_duplicates(healthy_diet)
    /\ pc' = "deduplicated"
    /\ UNCHANGED <<error, combined_data, layout, inputs, filtered_data, figures>>

\* lines 15 and 18
RenameColumns ==
    /\ pc = "deduplicated"
    /\ epicurious' = rename(rename(rename(epicurious, "Recipe_name", "title"),
                                   "Protein(g)", "protein"), "Fat(g)", "fat")
    /\ pc' = "renamed"
    /\ UNCHANGED <<error, healthy_diet, combined_data, layout, inputs,
                   filtered_data, figures>>

\* t['title'] without the check that t has the column
NormalizeHealthyUnchecked ==
    /\ pc = "renamed"
    /\ pc' = "normalized_healthy"
    /\ healthy_diet' = IF "title" \in healthy_diet.columns
                       THEN normalize_title(healthy_diet) ELSE healthy_diet
    /\ UNCHANGED <<error, epicurious, combined_data, layout, inputs,
                   filtered_data, figures>>

\* line 21: healthy_diet['title'] raises KeyError when healthy_diet has no
\* column of that name
NormalizeHealthy ==
    /\ pc = "renamed"
    /\ IF "title" \notin healthy_diet.columns
       THEN pc' = "failed" /\ error' = "KeyError" /\ UNCHANGED healthy_diet
       ELSE /\ pc' = "normalized_healthy"
            /\ healthy_diet' = normalize_title(healthy_diet)
            /\ UNCHANGED error
    /\ UNCHANGED <<epicurious, combined_data, layout, inputs, filtered_data, figures>>

\* line 22: the same on epicurious
NormalizeEpicurious ==
    /\ pc = "normalized_healthy"
    /\ IF "title" \notin epicurious.columns
       THEN pc' = "failed" /\ error' = "KeyError" /\ UNCHANGED epicurious
       ELSE /\ pc' = "normalized"
            /\ epicurious' = normalize_title(epicurious)
            /\ UNCHANGED error
    /\ UNCHANGED <<healthy_diet, combined_data, layout, inputs, filtered_data, figures>>

\* lines 25 and 28: pd.merge raises KeyError when a side lacks the key
MergeDatasets ==
    /\ pc = "normalized"
    /\ IF "title" \in healthy_diet.columns /\ "title" \in epicurious.columns
       THEN /\ combined_data' = merge(healthy_diet, epicurious)
            /\ pc' = "merged"
            /\ UNCHANGED error
       ELSE pc' = "failed" /\ error' = "KeyError" /\ UNCHANGED combined_data
    /\ UNCHANGED <<healthy_diet, epicurious, layout, inputs, filtered_data, figures>>

NextStartup ==
    \/ DropDuplicates
    \/ RenameColumns
    \/ NormalizeHealthy
    \/ NormalizeEpicurious
    \/ MergeDatasets

----------------------------------------------------------------------------
(* The layout: lines 34-95 *)

SliderStep == 50
MarkStep == 500

Column(t, c) == [i \in 1..Len(t.rows) |-> t.rows[i][c]]

\* Series.unique(): the distinct values in order of first appearance, NaN
\* among them
unique(s) ==
    LET RECURSIVE from(_)
        from(i) == IF i > Len(s) THEN <<>>
                   ELSE IF \E j \in 1..(i - 1) : s[j] = s[i] THEN from(i + 1)
                   ELSE <<s[i]>> \o from(i + 1)
    IN  from(1)

NotNaN(s) == {Val(s[i]) : i \in {j \in 1..Len(s) : ~isna(s[j])}}

\* Series.min() and Series.max() skip NaN; NaN when nothing is left
series_min(s) ==
    IF NotNaN(s) = {} THEN NaN
    ELSE V(CHOOSE x \in NotNaN(s) : \A y \in NotNaN(s) : x <= y)
series_max(s) ==
    IF NotNaN(s) = {} THEN NaN
    ELSE V(CHOOSE x \in NotNaN(s) : \A y \in NotNaN(s) : x >= y)

\* lines 48-69: the dropdown and the range slider
Layout(t) ==
    LET cuisines == unique(Column(t, "Cuisine_type"))
        lo == Val(series_min(Column(t, "calories")))
        hi == Val(series_max(Column(t, "calories")))
    IN  [built |-> TRUE,
         options |-> cuisines,
         value |-> cuisines[1],
         min |-> lo,
         max |-> hi,
         step |-> SliderStep,
         marks |-> {m \in lo..(hi - 1) : (m - lo) % MarkStep = 0},
         range |-> <<lo, hi>>]

\* lines 34-95: unique()[0] raises IndexError on a table without rows, and
\* int(min()) raises ValueError when no row has calories
BuildLayout ==
    /\ pc = "merged"
    /\ IF ~({"Cuisine_type", "calories"} \subseteq combined_data.columns)
       THEN pc' = "failed" /\ error' = "KeyError" /\ UNCHANGED layout
       ELSE IF combined_data.rows = <<>>
       THEN pc' = "failed" /\ error' = "IndexError" /\ UNCHANGED layout
       ELSE IF isna(series_min(Column(combined_data, "calories")))
       THEN pc' = "failed" /\ error' = "ValueError" /\ UNCHANGED layout
       ELSE pc' = "serving" /\ layout' = Layout(combined_data) /\ UNCHANGED error
    /\ UNCHANGED <<healthy_diet, epicurious, combined_data, inputs,
                   filtered_data, figures>>

----------------------------------------------------------------------------
(* The callback: lines 98-135 *)

\* Series == value: NaN (and None) equals nothing
eq(c, d) == ~isna(c) /\ ~isna(d) /\ c = d
\* the lower bound taken as exclusive
gt(c, n) == ~isna(c) /\ Val(c) > n
\* Series >= number: False on NaN
ge(c, n) == ~isna(c) /\ Val(c) >= n
\* the upper bound taken as exclusive
lt(c, n) == ~isna(c) /\ Val(c) < n
\* Series <= number: False on NaN
le(c, n) == ~isna(c) /\ Val(c) <= n

\* lines 112-114: the boolean mask, as the positions where it is True
Mask(t, selected_cuisine, calorie_range) ==
    {i \in 1..Len(t.rows) :
        /\ eq(t.rows[i]["Cuisine_type"], selected_cuisine)
        /\ ge(t.rows[i]["calories"], calorie_range[1])
        /\ le(t.rows[i]["calories"], calorie_range[2])}

\* the elements of a set of positions, ascending
RECURSIVE Ascending(_)
Ascending(S) ==
    IF S = {} THEN <<>>
    ELSE LET m == CHOOSE x \in S : \A y \in S : x <= y
         IN  <<m>> \o Ascending(S \ {m})

\* t[mask]: a new table of the rows where the mask is True, with their labels
getitem(t, mask) ==
    LET kept == Ascending(mask)
    IN  [columns |-> t.columns,
         index |-> [k \in 1..Len(kept) |-> t.index[kept[k]]],
         rows |-> [k \in 1..Len(kept) |-> t.rows[kept[k]]]]

\* the date strings pandas parses, as days
ParsedDate(s) ==
    CASE s = "2021-03-01" -> V(20210301)
      [] s = "2021-04-01" -> V(20210401)
      [] OTHER -> NaN

\* pd.to_datetime(series, errors='coerce'): NaT for NaN and for what does not
\* parse
to_datetime(s) ==
    [i \in 1..Len(s) |-> IF isna(s[i]) THEN NaN ELSE ParsedDate(Val(s[i]))]

\* t[col] = values on table t
setitem(t, col, values) ==
    [columns |-> t.columns \cup {col},
     index |-> t.index,
     rows |-> [i \in 1..Len(t.rows) |->
                 [c \in t.columns \cup {col} |->
                     IF c = col THEN values[i] ELSE t.rows[i][c]]]]

\* the assignment reaches the rows of base that carry the labels of filtered
SetitemWritesThrough(base, filtered, col, values) ==
    [base EXCEPT !.rows =
        [i \in 1..Len(base.rows) |->
            IF \E k \in 1..Len(filtered.index) : filtered.index[k] = base.index[i]
            THEN [base.rows[i] EXCEPT ![col] =
                    values[CHOOSE k \in 1..Len(filtered.index) :
                              filtered.index[k] = base.index[i]]]
            ELSE base.rows[i]]]

\* what filtered[col] = values leaves of base, the table filtered was taken
\* from by a boolean mask: the mask made a copy, base is not written
BaseAfterSetitem(base, filtered, col, values) == base

\* over the rows from i on that have both x and y: their number, and the sums
\* of x, y, x*x, y*y and x*y
RECURSIVE Moments(_, _, _, _)
Moments(rows, x, y, i) ==
    IF i > Len(rows) THEN <<0, 0, 0, 0, 0, 0>>
    ELSE LET m == Moments(rows, x, y, i + 1)
             a == Val(rows[i][x])
             b == Val(rows[i][y])
         IN  IF isna(rows[i][x]) \/ isna(rows[i][y]) THEN m
             ELSE <<m[1] + 1, m[2] + a, m[3] + b, m[4] + a * a, m[5] + b * b,
                    m[6] + a * b>>

\* the columns DataFrame.corr() correlates
NumericColumns(t) == t.columns \cap {"calories", "rating"}

\* Pearson's r of columns x and y over the rows that have both: NaN when the
\* divisor is 0, else cov / sqrt(vx * vy)
pearson(t, x, y) ==
    LET m == Moments(t.rows, x, y, 1)
        vx == m[1] * m[4] - m[2] * m[2]
        vy == m[1] * m[5] - m[3] * m[3]
        cov == m[1] * m[6] - m[2] * m[3]
    IN  IF vx = 0 \/ vy = 0 THEN NaN
        ELSE V([cov |-> cov, vx |-> vx, vy |-> vy])

\* DataFrame.corr()
corr(t) ==
    [p \in NumericColumns(t) \X NumericColumns(t) |-> pearson(t, p[1], p[2])]

\* line 117
BarChart(t) ==
    [type |-> "bar", title |-> "Number of Recipes by Cuisine",
     x |-> Column(t, "Cuisine_type"), y |-> Column(t, "title")]

\* line 120
ScatterPlot(t) ==
    [type |-> "scatter", title |-> "Calories vs Rating",
     x |-> Column(t, "rating"), y |-> Column(t, "calories"),
     color |-> Column(t, "Cuisine_type")]

\* lines 123-125
Heatmap(t) ==
    [type |-> "imshow", title |-> "Correlation Heatmap", z |-> corr(t)]

\* the chart without data under the title of the chart of dates
UntitledNoDateChart ==
    [type |-> "line", title |-> "Recipe Trends Over Time", x |-> <<>>, y |-> <<>>]

\* line 133
NoDateChart ==
    [type |-> "line", title |-> "No Date Information Available",
     x |-> <<>>, y |-> <<>>]

\* lines 130-131
DateChart(t) ==
    [type |-> "line", title |-> "Recipe Trends Over Time",
     x |-> Column(t, "date"), y |-> Column(t, "title"), width |-> 2]

\* line 128
HasDateColumn(t) == "date" \in t.columns

\* the values the dropdown sends: one of its options, or None when cleared
CuisineInputs == Range(layout.options) \cup {NaN}
\* positions of the slider: its ends and the first step
CalorieInputs == {layout.min, layout.min + layout.step, layout.max}
\* the values the slider sends: a lower and an upper handle
RangeInputs == {r \in CalorieInputs \X CalorieInputs : r[1] <= r[2]}

\* the four outputs in the order of the Output list, lines 99-104
Outputs == <<"bar-chart", "scatter-plot", "heatmap", "line-chart">>

\* the response leaves out the last output
DeliverAllButLast(returned) ==
    [id \in {Outputs[k] : k \in 1..(Len(Outputs) - 1)} |->
        returned[CHOOSE k \in 1..Len(Outputs) : Outputs[k] = id]]

\* Dash sets the figure of every Output from the returned tuple, by position
Deliver(returned) ==
    [id \in Range(Outputs) |-> returned[CHOOSE k \in 1..Len(Outputs) : Outputs[k] = id]]

\* lines 110-135
update_dashboard(selected_cuisine, calorie_range) ==
    /\ pc = "serving"
    /\ \E selected \in {getitem(combined_data,
                                Mask(combined_data, selected_cuisine, calorie_range))} :
        LET bar_chart == BarChart(selected)
            scatter_plot == ScatterPlot(selected)
            heatmap == Heatmap(selected)
        IN  IF HasDateColumn(selected)
            THEN \E dates \in {to_datetime(Column(selected, "date"))} :
                   \E parsed \in {setitem(selected, "date", dates)} :
                     /\ filtered_data' = parsed
                     /\ combined_data' =
                            BaseAfterSetitem(combined_data, selected, "date", dates)
                     /\ figures' = Deliver(<<bar_chart, scatter_plot, heatmap,
                                             DateChart(parsed)>>)
            ELSE /\ filtered_data' = selected
                 /\ combined_data' = combined_data
                 /\ figures' = Deliver(<<bar_chart, scatter_plot, heatmap, NoDateChart>>)
    /\ inputs' = <<selected_cuisine, calorie_range>>
    /\ UNCHANGED <<pc, error, healthy_diet, epicurious, layout>>

\* a change of the dropdown or of the slider calls the callback, lines 98-109
Interaction ==
    /\ pc = "serving"
    /\ \E selected_cuisine \in CuisineInputs, calorie_range \in RangeInputs :
          update_dashboard(selected_cuisine, calorie_range)

Next ==
    \/ NextStartup
    \/ BuildLayout
    \/ Interaction

Spec == Init /\ [][Next]_vars

----------------------------------------------------------------------------
(* Start-up alone, on files that may lack the recipe name *)

\* the columns of epi_r.csv with or without title, and of All_Diets.csv with
\* Recipe_name, with title, or with neither
SchemasA == {ColumnsA("title", FALSE), ColumnsA("title", FALSE) \ {"title"}}
SchemasB == {ColumnsB("Recipe_name", FALSE), ColumnsB("title", FALSE),
             ColumnsB("title", FALSE) \ {"title"}}

KeyOf(cols) ==
    IF "title" \in cols THEN "title"
    ELSE IF "Recipe_name" \in cols THEN "Recipe_name" ELSE "none"

InitSchema ==
    \E ca \in SchemasA, cb \in SchemasB :
      \E A \in Files(PoolA, KeyOf(ca), ca, MaxRowsA) :
        \E B \in Files(PoolB, KeyOf(cb), cb, MaxRowsB) :
          Loaded(A, B)

SpecSchema == InitSchema /\ [][NextStartup]_vars

----------------------------------------------------------------------------
(* Start-up alone, on every title up to a length *)

Alphabet == {"A", "a", "B", " ", "\t"}

Titles == SeqsUpTo(Alphabet, MaxTitleLen)

\* one recipe, under the same name in both files
InitNormalize ==
    \E t \in Titles :
      Loaded(Table(ColumnsA("title", FALSE),
                   <<[title |-> V(t), calories |-> V(200), rating |-> V(3)]>>),
             Table(ColumnsB("Recipe_name", FALSE),
                   <<[Recipe_name |-> V(t), Cuisine_type |-> V("italian")]>>))

SpecNormalize == InitNormalize /\ [][NextStartup]_vars

----------------------------------------------------------------------------
(* Properties *)

\* the callback has run at least once
Called == inputs # NoInputs

\* the rows of a table that carry the label of row k of filtered_data
Source(t, k) == {i \in 1..Len(t.rows) : t.index[i] = filtered_data.index[k]}

\* the row has the cuisine, and its calories are in the range, ends included
RowKept(row, cuisine, range) ==
    /\ row["Cuisine_type"] # NaN
    /\ cuisine # NaN
    /\ row["Cuisine_type"] = cuisine
    /\ row["calories"] # NaN
    /\ range[1] <= row["calories"][1]
    /\ row["calories"][1] <= range[2]

\* filtered_data holds rows of combined_data, each once, with their values
\* (the date column apart, which the callback parses)
FilteredIsSubset ==
    /\ \A k \in 1..Len(filtered_data.rows) :
          /\ Cardinality(Source(combined_data, k)) = 1
          /\ \A i \in Source(combined_data, k) :
                \A c \in combined_data.columns \ {"date"} :
                    filtered_data.rows[k][c] = combined_data.rows[i][c]
    /\ \A k1, k2 \in 1..Len(filtered_data.rows) :
          filtered_data.index[k1] = filtered_data.index[k2] => k1 = k2
    /\ filtered_data.columns = combined_data.columns

\* C1: after every call of update_dashboard, filtered_data holds exactly the
\* rows of combined_data whose Cuisine_type equals the selected cuisine and
\* whose calories lie between the two ends of the range, both ends included.
C1_FilterKeepsMatchingRows ==
    Called =>
        /\ FilteredIsSubset
        /\ \A i \in 1..Len(combined_data.rows) :
              (\E k \in 1..Len(filtered_data.rows) :
                    filtered_data.index[k] = combined_data.index[i])
              <=> RowKept(combined_data.rows[i], inputs[1], inputs[2])

\* an italian row of 200, an italian row of 800 and a french row, filtered on
\* italian and [200, 250]: the one row of 200 is kept
C1_Witness ==
    /\ Called
    /\ inputs = <<V("italian"), <<200, 250>>>>
    /\ \E i \in 1..Len(combined_data.rows) :
          /\ combined_data.rows[i]["Cuisine_type"] = V("italian")
          /\ combined_data.rows[i]["calories"] = V(800)
    /\ \E i \in 1..Len(combined_data.rows) :
          combined_data.rows[i]["Cuisine_type"] = V("french")
    /\ Len(filtered_data.rows) = 1
    /\ filtered_data.rows[1]["calories"] = V(200)

\* C2: while the server runs, whatever calls of update_dashboard were made,
\* combined_data is the table the merge of line 25 made of healthy_diet and
\* epicurious: same columns, same rows, same values.
C2_CombinedDataUnchanged ==
    pc = "serving" => combined_data = merge(healthy_diet, epicurious)

\* the callback has parsed the date column of a subset that is not empty, and
\* a parsed date differs from the cell it was read from
C2_Witness ==
    /\ Called
    /\ "date" \in combined_data.columns
    /\ \E k \in 1..Len(filtered_data.rows) :
          \E i \in Source(combined_data, k) :
              /\ ~isna(combined_data.rows[i]["date"])
              /\ filtered_data.rows[k]["date"] # combined_data.rows[i]["date"]

Merged == combined_data # NoTable

Smaller(a, b) == IF a <= b THEN a ELSE b

TitleOf(t, i) == NormalizeTitle(t.rows[i]["title"])

\* no two rows of the table have the same normalized title
UniqueTitles(t) ==
    \A i, j \in 1..Len(t.rows) : TitleOf(t, i) = TitleOf(t, j) => i = j

\* C3 as stated: the combined table has at most as many rows as the smaller
\* of the two deduplicated tables.
C3_Original ==
    Merged => Len(combined_data.rows)
                <= Smaller(Len(healthy_diet.rows), Len(epicurious.rows))

\* C3, amended: the combined table has at most as many rows as the product of
\* the row counts of the two deduplicated tables, and at most as many as the
\* smaller of the two when no two rows of a table share a normalized title.
C3_RowCountBound ==
    Merged =>
        /\ Len(combined_data.rows) <= Len(healthy_diet.rows) * Len(epicurious.rows)
        /\ UniqueTitles(healthy_diet) /\ UniqueTitles(epicurious)
           => Len(combined_data.rows)
                <= Smaller(Len(healthy_diet.rows), Len(epicurious.rows))

\* two tables of two rows each, their titles apart, both titles matched
C3_Witness ==
    /\ Merged
    /\ UniqueTitles(healthy_diet) /\ UniqueTitles(epicurious)
    /\ Len(healthy_diet.rows) = 2
    /\ Len(epicurious.rows) = 2
    /\ Len(combined_data.rows) = 2

\* the pairs (row of healthy_diet, row of epicurious) of equal normalized title
MatchingPairs ==
    {p \in (1..Len(healthy_diet.rows)) \X (1..Len(epicurious.rows)) :
        TitleOf(healthy_diet, p[1]) = TitleOf(epicurious, p[2])}

PairRow(p) ==
    JoinRow(healthy_diet.rows[p[1]], epicurious.rows[p[2]],
            healthy_diet.columns, epicurious.columns)

Occurrences(s, r) == Cardinality({k \in 1..Len(s) : s[k] = r})

\* C4: the combined table holds one row for each pair of a row of the
\* deduplicated healthy_diet and a row of the deduplicated epicurious whose
\* normalized titles are equal, and no other row; the title of each of its
\* rows occurs in both tables.
C4_OneRowPerMatchingPair ==
    Merged =>
        /\ Len(combined_data.rows) = Cardinality(MatchingPairs)
        /\ \A p \in MatchingPairs :
              Occurrences(combined_data.rows, PairRow(p))
                = Cardinality({q \in MatchingPairs : PairRow(q) = PairRow(p)})
        /\ \A k \in 1..Len(combined_data.rows) :
              /\ \E i \in 1..Len(healthy_diet.rows) :
                    TitleOf(healthy_diet, i) = combined_data.rows[k]["title"]
              /\ \E j \in 1..Len(epicurious.rows) :
                    TitleOf(epicurious, j) = combined_data.rows[k]["title"]

\* one row of healthy_diet matches two rows of epicurious, the other has a
\* title that epicurious does not have
C4_Witness ==
    /\ Merged
    /\ Len(combined_data.rows) = 2
    /\ Len(healthy_diet.rows) = 2
    /\ \E i \in 1..Len(healthy_diet.rows) : \A p \in MatchingPairs : p[1] # i

\* the number of options of the dropdown for which the row at position i is
\* kept when the range is the whole range of the slider
TimesReproduced(i) ==
    Cardinality({o \in 1..Len(layout.options) :
        i \in Mask(combined_data, layout.options[o], <<layout.min, layout.max>>)})

\* C5 as stated: the filter output is a subset of the combined table, and the
\* outputs for the whole calorie range and each cuisine of the selector hold
\* every row of the combined table exactly once.
C5_Original ==
    /\ Called => FilteredIsSubset
    /\ pc = "serving" =>
          \A i \in 1..Len(combined_data.rows) : TimesReproduced(i) = 1

\* C5, amended: the filter output is a subset of the combined table, and the
\* outputs for the whole calorie range and each cuisine of the selector hold
\* exactly once every row that has a cuisine and calories, and never a row
\* whose Cuisine_type or calories is missing.
C5_FullRangePartition ==
    /\ Called => FilteredIsSubset
    /\ pc = "serving" =>
          \A i \in 1..Len(combined_data.rows) :
              TimesReproduced(i) =
                  IF \/ isna(combined_data.rows[i]["Cuisine_type"])
                     \/ isna(combined_data.rows[i]["calories"])
                  THEN 0 ELSE 1

\* a selector of two options and a row without calories, filtered on the
\* whole range with a cuisine that has rows
C5_Witness ==
    /\ Called
    /\ inputs[2] = <<layout.min, layout.max>>
    /\ Len(layout.options) = 2
    /\ Len(filtered_data.rows) >= 1
    /\ \E i \in 1..Len(combined_data.rows) : isna(combined_data.rows[i]["calories"])

\* fewer than two rows, or a numeric column whose values do not vary
Degenerate(t) ==
    \/ Len(t.rows) < 2
    \/ \E c \in NumericColumns(t) :
          \A i, j \in 1..Len(t.rows) : t.rows[i][c] = t.rows[j][c]

\* a chart that shows nothing: no cell of the matrix has a value
EmptyOrPlaceholder(chart) == \A p \in DOMAIN chart.z : isna(chart.z[p])

\* C6 as stated: when the filtered subset has fewer than two rows or a
\* numeric column without variance, the call delivers its four outputs and
\* the heatmap is an empty or placeholder chart.
C6_Original ==
    Called /\ Degenerate(filtered_data) =>
        /\ DOMAIN figures = Range(Outputs)
        /\ EmptyOrPlaceholder(figures["heatmap"])

\* C7: when combined_data has no column named date, the line chart is, after
\* every call, the chart "No Date Information Available" without any data.
C7_NoDatePlaceholder ==
    Called /\ "date" \notin combined_data.columns =>
        figures["line-chart"] =
            [type |-> "line", title |-> "No Date Information Available",
             x |-> <<>>, y |-> <<>>]

\* both files had a date column, so the merge named them date_healthy and
\* date_epi, and the call was on a subset that is not empty
C7_Witness ==
    /\ Called
    /\ "date" \notin combined_data.columns
    /\ "date_healthy" \in combined_data.columns
    /\ Len(filtered_data.rows) >= 1

\* C8: the display holds no figure before the first call and, after every
\* call, the four figures of the last inputs: the bar chart, the scatter
\* plot, the heatmap and the line chart of the one subset that the cuisine
\* and the range of that call select.
C8_FourOutputsOfOneCall ==
    IF ~Called THEN figures = NoFigures
    ELSE /\ DOMAIN figures = {"bar-chart", "scatter-plot", "heatmap", "line-chart"}
         /\ Range(filtered_data.index) =
                {combined_data.index[i] :
                    i \in Mask(combined_data, inputs[1], inputs[2])}
         /\ figures["bar-chart"] = BarChart(filtered_data)
         /\ figures["scatter-plot"] = ScatterPlot(filtered_data)
         /\ figures["heatmap"] = Heatmap(filtered_data)
         /\ figures["line-chart"] =
                IF "date" \in filtered_data.columns
                THEN DateChart(filtered_data) ELSE NoDateChart

\* a call with inputs other than those of the layout, on a subset with rows
C8_Witness ==
    /\ Called
    /\ inputs # <<layout.value, layout.range>>
    /\ Len(filtered_data.rows) >= 1
    /\ Len(filtered_data.rows) < Len(combined_data.rows)

\* healthy_diet has no title, or epicurious has neither Recipe_name nor title
MissingTitle ==
    \/ "title" \notin healthy_diet.columns
    \/ epicurious.columns \cap {"Recipe_name", "title"} = {}

Reconciling == pc \in {"loaded", "deduplicated", "renamed", "normalized_healthy"}

\* C9 as stated: when a table has no title column after the renaming, the
\* reconciliation fails with SchemaError and makes no combined table.
C9_Original ==
    MissingTitle /\ ~Reconciling =>
        pc = "failed" /\ error = "SchemaError" /\ combined_data = NoTable

\* C9, amended: when a table has no title column after the renaming, the
\* reconciliation fails with KeyError (the code has no SchemaError) at the
\* normalization of that table's titles, and makes no combined table.
C9_MissingTitleFails ==
    MissingTitle =>
        /\ combined_data = NoTable
        /\ pc = "normalized_healthy" => "title" \in healthy_diet.columns
        /\ ~Reconciling => pc = "failed" /\ error = "KeyError"

\* healthy_diet has its title and was normalized, epicurious has none
C9_Witness ==
    /\ pc = "failed"
    /\ error = "KeyError"
    /\ "title" \in healthy_diet.columns
    /\ epicurious.columns \cap {"Recipe_name", "title"} = {}
    /\ Len(healthy_diet.rows) >= 1

\* C10: normalizing a normalized title changes nothing: after line 21 each
\* title of healthy_diet is the normalized title of the file (still held by
\* epicurious) and normalizing it again gives the same title, and after line
\* 22 the same holds of the titles of both tables.
C10_NormalizeIdempotent ==
    /\ pc = "normalized_healthy" =>
          \A i \in 1..Len(healthy_diet.rows) :
              /\ healthy_diet.rows[i]["title"]
                    = NormalizeTitle(epicurious.rows[i]["title"])
              /\ NormalizeTitle(healthy_diet.rows[i]["title"])
                    = healthy_diet.rows[i]["title"]
    /\ pc \in {"normalized", "merged"} =>
          /\ \A i \in 1..Len(healthy_diet.rows) :
                NormalizeTitle(healthy_diet.rows[i]["title"])
                    = healthy_diet.rows[i]["title"]
          /\ \A i \in 1..Len(epicurious.rows) :
                NormalizeTitle(epicurious.rows[i]["title"])
                    = epicurious.rows[i]["title"]

\* a title in upper case between a space and a tab, normalized
C10_Witness ==
    /\ pc = "normalized_healthy"
    /\ epicurious.rows[1]["title"] = V(<<" ", "A", "\t">>)
    /\ healthy_diet.rows[1]["title"] = V(<<"a">>)

====
